---- MODULE Spec2Model ----
(***************************************************************************)
(* A model of code/libraries/ratio_density.py (class ratio_map).           *)
(*                                                                         *)
(* Numbers.  A float is a record [nan, v]: NaN, or the integer v.  Ratios  *)
(* and everything derived from them (curve values, uncertainties) are held *)
(* in units of 1/Scale, so that the quotient of two brightness values      *)
(* drawn from the input sets is exact.  Densities are integers.            *)
(* Arrays.  A 2D ndarray is a sequence of rows (a[y][x] of the source is   *)
(* a[y+1][x+1] here).                                                      *)
(***************************************************************************)
EXTENDS Integers, Sequences, FiniteSets, TLC

\* ------------------------------------------------------------------ bounds
\* Largest magnitude of an input brightness value.
MaxT == 2
\* Largest relative uncertainty (a float of rel_uncs).
MaxRel == 1
\* Largest value of a map or of a candidate given to the nearest-value matcher
\* and to the mosaic merge.
MaxVal == 3
\* Longest candidate list given to the nearest-value matcher.
MaxOpts == 3
\* Most entries of the grid directory.
MaxFiles == 4
\* Column densities are held in units of 10^-FracDigits.
FracDigits == 2

\* The values of the second brightness map (the divisors of the ratio).
Divisors == {1, 2}
\* Ratios are held in units of 1/Scale: the least common multiple of the divisors.
Scale ==
  CHOOSE m \in 1..4 :
    /\ \A d \in Divisors : m % d = 0
    /\ \A k \in 1..(m - 1) : \E d \in Divisors : k % d # 0

\* ------------------------------------------------------------------ floats
NaN == [nan |-> TRUE, v |-> 0]
F(x) == [nan |-> FALSE, v |-> x]
IsNaN(f) == f.nan

Abs(x) == IF x < 0 THEN -x ELSE x

\* a < b and a > b of two floats: False when either is NaN.
Lt(a, b) == ~a.nan /\ ~b.nan /\ a.v < b.v
Gt(a, b) == Lt(b, a)

FAdd(a, b) == IF a.nan \/ b.nan THEN NaN ELSE F(a.v + b.v)
FSub(a, b) == IF a.nan \/ b.nan THEN NaN ELSE F(a.v - b.v)
FMul(a, b) == IF a.nan \/ b.nan THEN NaN ELSE F(a.v * b.v)

\* The quotient of two brightness values as a ratio in units of 1/Scale.
\* The divisors of the model are nonzero and divide Scale * a.
FDivBrightness(a, b) ==
  IF a.nan \/ b.nan THEN NaN ELSE F((Scale * a.v) \div b.v)

IsSquare(n) == \E k \in 0..n : k * k = n
ISqrt(n) == CHOOSE k \in 0..n : k * k = n
\* sqrt(a**2 + b**2), on the pairs whose sum of squares is a perfect square.
Quadrature(a, b) ==
  IF a.nan \/ b.nan THEN NaN ELSE F(ISqrt(a.v * a.v + b.v * b.v))

\* ------------------------------------------------------------------ arrays
Shape(a) == <<Len(a), Len(a[1])>>
Full(shape, f) == [y \in 1..shape[1] |-> [x \in 1..shape[2] |-> f]]
Pixels(a) == {<<y, x>> : y \in 1..Len(a), x \in 1..Len(a[1])}
At(a, p) == a[p[1]][p[2]]
Put(a, p, f) == [a EXCEPT ![p[1]][p[2]] = f]

\* numpy broadcasting of two 2D shapes.
CanBroadcast(s, t) ==
  \A d \in 1..2 : s[d] = t[d] \/ s[d] = 1 \/ t[d] = 1
BroadcastShape(s, t) ==
  [d \in 1..2 |-> IF s[d] = 1 THEN t[d] ELSE s[d]]
\* Element (y, x) of array a broadcast to a larger shape.
BAt(a, y, x) ==
  a[IF Len(a) = 1 THEN 1 ELSE y][IF Len(a[1]) = 1 THEN 1 ELSE x]

\* An elementwise binary operation with broadcasting; the shapes broadcast.
Elementwise(Op(_, _), a, b) ==
  LET sh == BroadcastShape(Shape(a), Shape(b))
  IN  [y \in 1..sh[1] |-> [x \in 1..sh[2] |-> Op(BAt(a, y, x), BAt(b, y, x))]]

\* The indices np.where(~np.isnan(data)) gives, in its (row-major) order.
RECURSIVE RowMajor(_, _, _)
RowMajor(a, y, x) ==
  IF y > Len(a) THEN <<>>
  ELSE IF x > Len(a[1]) THEN RowMajor(a, y + 1, 1)
  ELSE (IF IsNaN(a[y][x]) THEN <<>> ELSE << <<y, x>> >>) \o RowMajor(a, y, x + 1)
NonNaNIndices(a) == RowMajor(a, 1, 1)

\* ------------------------------------------------------ the instance's state
VARIABLES
  pc,           \* where the program is: "new", "ready", "calc", "done", "raised", ...
  exc,          \* the exception that reached the caller ("none": none)
  printed,      \* the messages printed so far
  args,         \* the arguments of the constructor call
  astro_image,  \* self.astro_image: the ratio grid (Unset: the attribute was never set)
  rat_unc,      \* self.rat_unc: the absolute uncertainty grid, or None
  header,       \* self.header: the header the instance was given, keyword by keyword
  \* the locals of a density-retrieval call
  stage,        \* where exc was raised: "init" (the constructor), "call" (a retrieval
                \* call, outside the root-finds), or the root-find: "central", "up", "low"
  fit,          \* the fitted curve of the call: popt, x_curve, curve_vals, brackets
  ratio_copy,   \* the call's working copy of the ratio map
  vals,         \* __calculate_density's three return arrays
  vals_err_low,
  vals_err_up,
  todo,         \* the indices the loop of line 324 has still to visit
  \* a helper called on its own: its arguments and what it returned
  op_in,
  op_out,
  \* get_density_ratio_from_colDens: its arguments and its locals
  call,              \* the retrieval call under way and its arguments
  colDens_list,
  file_names_dict,   \* the dict, as a function of its keys (their order: colDens_list)
  Tkin_list,
  colDens_nearest,
  Tkin_nearest,
  loop_i,            \* i: the place in colDens_list of the bucket under way (from 1)
  loop_j,            \* j: the place in Tkin_list of the temperature under way (from 1)
  file_paths,        \* the bucket's sorted paths
  log_dens_map,      \* the three mosaics
  log_dens_map_low,
  log_dens_map_up,
  returned           \* the three images a retrieval call returned

selfVars == <<astro_image, rat_unc, header>>
invVars == <<fit, ratio_copy, vals, vals_err_low, vals_err_up, todo>>
opVars == <<op_in, op_out>>
gridVars == <<colDens_list, file_names_dict, Tkin_list, colDens_nearest, Tkin_nearest,
              loop_i, loop_j, file_paths>>
mosaicVars == <<log_dens_map, log_dens_map_low, log_dens_map_up>>
callVars == <<call, gridVars, mosaicVars, returned>>

RECURSIVE Pow10(_)
Pow10(k) == IF k = 0 THEN 1 ELSE 10 * Pow10(k - 1)

\* An attribute that was never assigned, and Python's None.
Unset == <<>>
None == <<>>

\* The entries of rel_uncs: a float, an ndarray, or something else (an int).
Flt(f) == [kind |-> "float", f |-> f, a |-> <<>>]
Arr(a) == [kind |-> "ndarray", f |-> NaN, a |-> a]
IntEntry(i) == [kind |-> "int", f |-> F(i), a |-> <<>>]

MsgNoRatio == "Cannot create a ratio map"
MsgUncInput == "You did not provide the right input to add uncertainty"
MsgUncNotInit == "It was not possible to initialize the uncertainty"
MsgUncCount == "You provided an incorrect number of relative uncertainties"

\* __verify_input_uncertainty, lines 283-293.  The shape test of line 288 reads
\* rel_uncs[0] on both sides of its "and".
VerifyInputUncertainty(image, rel_uncs) ==
  IF rel_uncs[1].kind = "float" /\ rel_uncs[2].kind = "float"
  THEN [exc |-> "none", go |-> TRUE, printed |-> {}]
  ELSE IF rel_uncs[1].kind = "ndarray" /\ rel_uncs[2].kind = "ndarray"
  THEN IF image = Unset
       THEN [exc |-> "AttributeError", go |-> FALSE, printed |-> {}]
       ELSE IF Shape(rel_uncs[1].a) = Shape(image) /\ Shape(rel_uncs[1].a) = Shape(image)
       THEN [exc |-> "none", go |-> TRUE, printed |-> {}]
       ELSE [exc |-> "none", go |-> FALSE, printed |-> {MsgUncInput}]
  ELSE [exc |-> "none", go |-> FALSE, printed |-> {}]

\* __create_uncertainty_array, lines 296-299; called with two floats or two ndarrays.
CreateUncertaintyArray(image, rel_uncs) ==
  IF rel_uncs[1].kind = "float"
  THEN IF image = Unset
       THEN [exc |-> "AttributeError", val |-> None]
       ELSE LET rel_unc == Quadrature(rel_uncs[1].f, rel_uncs[2].f)
            IN  [exc |-> "none",
                 val |-> [y \in 1..Len(image) |->
                            [x \in 1..Len(image[1]) |-> FMul(image[y][x], rel_unc)]]]
  ELSE IF ~CanBroadcast(Shape(rel_uncs[1].a), Shape(rel_uncs[2].a))
  THEN [exc |-> "ValueError", val |-> None]
  ELSE LET rel_unc == Elementwise(Quadrature, rel_uncs[1].a, rel_uncs[2].a)
       IN  IF image = Unset
           THEN [exc |-> "AttributeError", val |-> None]
           ELSE IF ~CanBroadcast(Shape(image), Shape(rel_unc))
           THEN [exc |-> "ValueError", val |-> None]
           ELSE [exc |-> "none", val |-> Elementwise(FMul, image, rel_unc)]

\* ratio_map.__init__, lines 32-47: the instance it leaves, or the exception.
CtorResult(data1, data2, rel_uncs) ==
  LET divides == CanBroadcast(Shape(data1), Shape(data2))
      image == IF divides THEN Elementwise(FDivBrightness, data1, data2) ELSE Unset
      p0 == IF divides THEN {} ELSE {MsgNoRatio}
      base == [exc |-> "none", astro_image |-> image, rat_unc |-> None, printed |-> p0]
  IN  IF ~rel_uncs.given THEN base
      ELSE IF Len(rel_uncs.items) # 2
      THEN [base EXCEPT !.printed = p0 \cup {MsgUncCount}]
      ELSE LET v == VerifyInputUncertainty(image, rel_uncs.items)
           IN  IF v.exc # "none" THEN [base EXCEPT !.exc = v.exc]
               ELSE IF ~v.go
               THEN [base EXCEPT !.printed = p0 \cup v.printed \cup {MsgUncNotInit}]
               ELSE LET u == CreateUncertaintyArray(image, rel_uncs.items)
                    IN  [base EXCEPT !.exc = u.exc, !.rat_unc = u.val]

\* ------------------------------------------------------ the constructor's inputs
BrightVals == {NaN} \cup {F(v) : v \in (-MaxT)..MaxT}
\* The ratio map of the inversion scenario, [[2.0, NaN], [3.0, 4.0]], as the
\* first brightness map (the second one being all 1).
ScenarioData1 == << <<F(2), NaN>>, <<F(3), F(4)>> >>
Data1Set == {<< <<a, b>> >> : a \in BrightVals, b \in BrightVals} \cup {ScenarioData1}
Data2Shapes == {<<1, 2>>, <<2, 2>>, <<1, 3>>}
Data2Set == {Full(sh, F(d)) : sh \in Data2Shapes, d \in Divisors}

RelPairs == {p \in (0..MaxRel) \X (0..MaxRel) : IsSquare(p[1] * p[1] + p[2] * p[2])}
UncShapes == {<<1, 2>>, <<2, 2>>, <<1, 3>>}
RelUncsSet ==
  {[given |-> FALSE, items |-> <<>>]}
  \cup {[given |-> TRUE, items |-> <<Flt(F(p[1])), Flt(F(p[2]))>>] : p \in RelPairs}
  \cup {[given |-> TRUE,
         items |-> <<Arr(Full(s[1], F(0))), Arr(Full(s[2], F(r)))>>] :
          s \in UncShapes \X UncShapes, r \in {0, MaxRel}}
  \cup {[given |-> TRUE, items |-> <<Flt(F(MaxRel))>>],
        [given |-> TRUE, items |-> <<Flt(F(0)), Flt(F(MaxRel)), Flt(F(0))>>],
        [given |-> TRUE, items |-> <<IntEntry(1), IntEntry(1)>>],
        [given |-> TRUE, items |-> <<Flt(F(MaxRel)), Arr(Full(<<1, 2>>, F(0)))>>]}

\* The headers an instance is given: keyword to value.
Headers == {[NAXIS |-> "2"], [NAXIS |-> "2", BUNIT |-> "K"]}
NoArgs == [data1 |-> <<>>, data2 |-> <<>>, rel_uncs |-> [given |-> FALSE, items |-> <<>>],
           header |-> <<>>]

\* ratio_map(data1, data2, header, rel_uncs)
Construct ==
  /\ pc = "new"
  /\ \E data1 \in Data1Set, data2 \in Data2Set, rel_uncs \in RelUncsSet, hdr \in Headers :
       LET r == CtorResult(data1, data2, rel_uncs)
       IN  /\ args' = [data1 |-> data1, data2 |-> data2, rel_uncs |-> rel_uncs,
                       header |-> hdr]
           /\ astro_image' = r.astro_image
           /\ header' = IF r.astro_image = Unset THEN Unset ELSE hdr
           /\ rat_unc' = r.rat_unc
           /\ printed' = r.printed
           /\ exc' = r.exc
           /\ stage' = IF r.exc = "none" THEN "none" ELSE "init"
           /\ pc' = IF r.exc = "none" THEN "ready" ELSE "raised"
  /\ UNCHANGED <<invVars, opVars, call, gridVars, mosaicVars, returned>>

\* ------------------------------------------------- the per-pixel inversion
\* The polynomial of coefficients popt (lowest order first) at x, as
\* funcs.get_poly_function evaluates it for get_ratio_curve.
RECURSIVE Poly(_, _)
Poly(popt, x) ==
  IF popt = <<>> THEN 0 ELSE Head(popt) + x * Poly(Tail(popt), x)

\* np.linspace(first, last, n), for spans the n - 1 steps divide.
Linspace(first, last, n) ==
  [i \in 1..n |-> IF n = 1 THEN first ELSE first + ((i - 1) * (last - first)) \div (n - 1)]

\* get_curve_vals, lines 202-206: the resampled density axis and the curve on it.
GetCurveVals(df, popt) ==
  LET x_curve == Linspace(df.first, df.last, df.len)
  IN  [x_curve |-> x_curve,
       curve_vals |-> [i \in 1..df.len |-> Poly(popt, x_curve[i])]]

SeqMin(s) == CHOOSE m \in {s[i] : i \in 1..Len(s)} : \A i \in 1..Len(s) : m <= s[i]
SeqMax(s) == CHOOSE m \in {s[i] : i \in 1..Len(s)} : \A i \in 1..Len(s) : m >= s[i]

\* __get_min_max_from_fitted_ratio_curve, lines 439-444.
GetMinMaxFromFittedRatioCurve(curve_vals) ==
  [min_rat |-> SeqMin(curve_vals), max_rat |-> SeqMax(curve_vals)]

\* The range cut with the bounds themselves cut too.
RangeCutClosed(min_rat, max_rat, copy) ==
  [y \in 1..Len(copy) |-> [x \in 1..Len(copy[1]) |->
     IF ~IsNaN(copy[y][x]) /\ (copy[y][x].v <= min_rat \/ copy[y][x].v >= max_rat)
     THEN NaN ELSE copy[y][x]]]

\* __get_ratio_map_copy_range_cut, lines 431-435.
GetRatioMapCopyRangeCut(min_rat, max_rat, copy) ==
  [y \in 1..Len(copy) |-> [x \in 1..Len(copy[1]) |->
     IF Lt(copy[y][x], F(min_rat)) \/ Gt(copy[y][x], F(max_rat)) THEN NaN ELSE copy[y][x]]]

\* x_curve[np.where(curve_vals == v)[0]], lines 186-187: an array with one
\* density for every place the curve takes the value v.
RECURSIVE SelectWhere(_, _, _, _)
SelectWhere(x_curve, curve_vals, v, i) ==
  IF i > Len(x_curve) THEN <<>>
  ELSE (IF curve_vals[i] = v THEN <<x_curve[i]>> ELSE <<>>)
       \o SelectWhere(x_curve, curve_vals, v, i + 1)

\* Lines 173-187 of get_density_in_pixels_from_curve_fitting: the curve the
\* external fit returned for the table df, its range and its bracket.
FittedCurve(df) ==
  LET c == GetCurveVals(df, df.popt)
      mm == GetMinMaxFromFittedRatioCurve(c.curve_vals)
  IN  [popt |-> df.popt, x_curve |-> c.x_curve, curve_vals |-> c.curve_vals,
       min_rat |-> mm.min_rat, max_rat |-> mm.max_rat,
       n_beg |-> SelectWhere(c.x_curve, c.curve_vals, mm.min_rat, 1),
       n_end |-> SelectWhere(c.x_curve, c.curve_vals, mm.max_rat, 1)]

NoRoot == [exc |-> "none", root |-> NaN]

\* scipy.optimize.brentq(f, a, b, args = (*popt, yval)) with f = polynomial - yval.
\* a and b arrive as arrays: one of more than one element is no float (TypeError).
\* No sign change between f(a) and f(b) is a ValueError.  Otherwise the result is
\* a zero of f between a and b, here at the resolution of the density axis: an
\* exact zero, or the density just below a change of sign.
BrentQ(popt, a, b, yval) ==
  IF Len(a) # 1 \/ Len(b) # 1 THEN {[exc |-> "TypeError", root |-> NaN]}
  ELSE LET fa == Poly(popt, a[1]) - yval
           fb == Poly(popt, b[1]) - yval
           lo == IF a[1] <= b[1] THEN a[1] ELSE b[1]
           hi == IF a[1] <= b[1] THEN b[1] ELSE a[1]
       IN  IF fa * fb > 0 THEN {[exc |-> "ValueError", root |-> NaN]}
           ELSE IF fa = 0 THEN {[exc |-> "none", root |-> F(a[1])]}
           ELSE IF fb = 0 THEN {[exc |-> "none", root |-> F(b[1])]}
           ELSE {[exc |-> "none", root |-> F(n)] : n \in
                  {m \in lo..(hi - 1) :
                     \/ Poly(popt, m) - yval = 0
                     \/ (Poly(popt, m) - yval) * (Poly(popt, m + 1) - yval) < 0}}

\* One pass of the loop body of __calculate_density, lines 324-336, for the
\* pixel p: what the three arrays get there, or the root-find that raised.
PixelOutcomes(data, unc_map, c, p) ==
  LET r == At(data, p)
      up_err == FAdd(r, At(unc_map, p))
      low_err == FSub(r, At(unc_map, p))
      C == BrentQ(c.popt, c.n_beg, c.n_end, r.v)
      U == IF unc_map # None /\ Lt(up_err, F(c.max_rat))
           THEN BrentQ(c.popt, c.n_beg, c.n_end, up_err.v) ELSE {NoRoot}
      L == IF unc_map # None /\ Gt(low_err, F(c.min_rat))
           THEN BrentQ(c.popt, c.n_beg, c.n_end, low_err.v) ELSE {NoRoot}
  IN  {IF x[1].exc # "none"
         THEN [exc |-> x[1].exc, stage |-> "central", val |-> NaN, up |-> NaN, low |-> NaN]
       ELSE IF x[2].exc # "none"
         THEN [exc |-> x[2].exc, stage |-> "up", val |-> x[1].root, up |-> NaN, low |-> NaN]
       ELSE IF x[3].exc # "none"
         THEN [exc |-> x[3].exc, stage |-> "low", val |-> x[1].root, up |-> x[2].root,
               low |-> NaN]
       ELSE [exc |-> "none", stage |-> "none", val |-> x[1].root, up |-> x[2].root,
             low |-> x[3].root] : x \in C \X U \X L}

\* ------------------------------------------------ the tables the fit is given
\* The table of one grid cell as the inversion reads it: its first and last
\* density, its number of rows, and the coefficients the external least-squares
\* fit returns for it (in units of 1/Scale).
\* ratio = 0.5 * n + 1 on n in [0, 8] (the inversion scenario).
ScenarioTable == [popt |-> <<Scale, Scale \div 2, 0>>, first |-> 0, last |-> 8, len |-> 3]
Tables ==
  {ScenarioTable,
   [popt |-> <<-2, 1, 0>>, first |-> 0, last |-> 4, len |-> 3],   \* increasing
   [popt |-> <<2, -1, 0>>, first |-> 0, last |-> 4, len |-> 3],   \* decreasing
   [popt |-> <<0, 0, 1>>, first |-> 0, last |-> 2, len |-> 3],    \* increasing, curved
   [popt |-> <<0, -4, 1>>, first |-> 0, last |-> 4, len |-> 3]}   \* the maximum twice

NoFit == [popt |-> <<>>, x_curve |-> <<>>, curve_vals |-> <<>>, min_rat |-> 0,
          max_rat |-> 0, n_beg |-> <<>>, n_end |-> <<>>]

\* ndarray.copy(), lines 69 and 133: the same values in storage of its own, so
\* that what is then written into the copy is not written into the original.
ArrayCopy(a) == [data |-> a, shared |-> FALSE]

\* get_density_ratio_single_temperature, lines 56-72, into
\* get_density_in_pixels_from_curve_fitting, lines 172-188, up to the first
\* pass of __calculate_density's loop (lines 316-323).
CallSingle ==
  /\ pc = "ready"
  /\ UNCHANGED <<printed, args, rat_unc, header, opVars, gridVars, mosaicVars, returned>>
  /\ \E df \in Tables :
       IF astro_image = Unset
       THEN /\ pc' = "raised"
            /\ exc' = "AttributeError"
            /\ stage' = "call"
            /\ UNCHANGED <<astro_image, invVars, call>>
       ELSE LET copy == ArrayCopy(astro_image)
                c == FittedCurve(df)
                cut == GetRatioMapCopyRangeCut(c.min_rat, c.max_rat, copy.data)
            IN  /\ pc' = "calc"
                /\ astro_image' = IF copy.shared THEN cut ELSE astro_image
                /\ call' = [f |-> "single_temperature"]
                /\ exc' = "none"
                /\ stage' = "none"
                /\ fit' = c
                /\ ratio_copy' = cut
                /\ vals' = Full(Shape(cut), NaN)
                /\ vals_err_low' = Full(Shape(cut), NaN)
                /\ vals_err_up' = Full(Shape(cut), NaN)
                /\ todo' = NonNaNIndices(cut)

\* One pass of the loop of __calculate_density, lines 324-336.
CalcPixel ==
  /\ pc = "calc"
  /\ todo # <<>>
  /\ UNCHANGED <<printed, args, selfVars, fit, ratio_copy, opVars, call, gridVars, mosaicVars,
                 returned>>
  /\ \E o \in PixelOutcomes(ratio_copy, rat_unc, fit, Head(todo)) :
       /\ vals' = Put(vals, Head(todo), o.val)
       /\ vals_err_up' = Put(vals_err_up, Head(todo), o.up)
       /\ vals_err_low' = Put(vals_err_low, Head(todo), o.low)
       /\ exc' = o.exc
       /\ stage' = o.stage
       /\ IF o.exc = "none"
          THEN pc' = "calc" /\ todo' = Tail(todo)
          ELSE pc' = "raised" /\ todo' = todo

\* ---------------------------------------------------- the images a call returns
BunitLog == "log[n$_{H_{2}}$ (cm$^{-3}$)]"
BunitLinear == "n$_{H_{2}}$ (cm$^{-3}$)"
NoImages == <<>>

\* The header with the keyword BUNIT set to bunit.
WithBunit(h, bunit) ==
  [k \in DOMAIN h \cup {"BUNIT"} |-> IF k = "BUNIT" THEN bunit ELSE h[k]]

\* __dens_map_to_image with no copy at line 389: BUNIT is set in self.header itself.
DensMapToImageInPlace(self_header, map, log_bool) ==
  LET bunit == IF log_bool THEN BunitLog ELSE BunitLinear
      data == IF log_bool THEN map
              ELSE [y \in 1..Len(map) |-> [x \in 1..Len(map[1]) |->
                      IF IsNaN(map[y][x]) THEN NaN ELSE F(Pow10(map[y][x].v))]]
  IN  [image |-> [astro_image |-> data, header |-> WithBunit(self_header, bunit)],
       bunit |-> bunit,
       self_header |-> WithBunit(self_header, bunit)]

\* __dens_map_to_image, lines 381-393: the image of a density map (10**map
\* unless log_bool) under a copy of self.header with BUNIT set, the unit, and
\* what self.header holds afterwards.
DensMapToImage(self_header, map, log_bool) ==
  LET bunit == IF log_bool THEN BunitLog ELSE BunitLinear
      data == IF log_bool THEN map
              ELSE [y \in 1..Len(map) |-> [x \in 1..Len(map[1]) |->
                      IF IsNaN(map[y][x]) THEN NaN ELSE F(Pow10(map[y][x].v))]]
      header_density == WithBunit(self_header, bunit)
  IN  [image |-> [astro_image |-> data, header |-> header_density],
       bunit |-> bunit,
       self_header |-> self_header]

\* Lines 75-82 and 148-155: the three maps into images, one after the other.
ReturnImages(map, map_low, map_up) ==
  \E log_bool \in BOOLEAN :
  \E r1 \in {DensMapToImage(header, map, log_bool)} :
  \E r2 \in {DensMapToImage(r1.self_header, map_low, log_bool)} :
  \E r3 \in {DensMapToImage(r2.self_header, map_up, log_bool)} :
    /\ returned' = [log_bool |-> log_bool, images |-> <<r1.image, r2.image, r3.image>>]
    /\ header' = r3.self_header

\* The return of __calculate_density, line 338, and of its callers: the single-cell
\* retrieval goes on to return its images, lines 75-82.
CalcReturn ==
  /\ pc = "calc"
  /\ todo = <<>>
  /\ IF call.f = "single_temperature"
     THEN /\ pc' = "done"
          /\ ReturnImages(vals, vals_err_low, vals_err_up)
     ELSE /\ pc' = "merge"
          /\ UNCHANGED <<header, returned>>
  /\ UNCHANGED <<exc, stage, printed, args, astro_image, rat_unc, invVars, opVars, call,
                 gridVars, mosaicVars>>

vars == <<pc, exc, stage, printed, args, selfVars, invVars, opVars, callVars>>

\* No instance, no call.
InstanceIdle ==
  /\ exc = "none"
  /\ stage = "none"
  /\ printed = {}
  /\ args = NoArgs
  /\ astro_image = Unset
  /\ rat_unc = None
  /\ header = Unset
InversionIdle ==
  /\ fit = NoFit
  /\ ratio_copy = <<>>
  /\ vals = <<>>
  /\ vals_err_low = <<>>
  /\ vals_err_up = <<>>
  /\ todo = <<>>
NoOp == [f |-> "none"]
OpIdle == op_in = NoOp /\ op_out = NoOp
CallIdle ==
  /\ call = [f |-> "none"]
  /\ colDens_list = <<>>
  /\ file_names_dict = <<>>
  /\ Tkin_list = <<>>
  /\ colDens_nearest = <<>>
  /\ Tkin_nearest = <<>>
  /\ loop_i = 0
  /\ loop_j = 0
  /\ file_paths = <<>>
  /\ log_dens_map = <<>>
  /\ log_dens_map_low = <<>>
  /\ log_dens_map_up = <<>>
  /\ returned = NoImages

\* Construction, then the single-cell density retrieval.
Init ==
  /\ pc = "new"
  /\ InstanceIdle
  /\ InversionIdle
  /\ OpIdle
  /\ CallIdle

Next ==
  \/ Construct
  \/ CallSingle
  \/ CalcPixel
  \/ CalcReturn

Spec == Init /\ [][Next]_vars

\* ---------------------------------------------------- nearest-value matching
\* __find_nearest_value, lines 410-413: np.abs(array - value).argmin() is the
\* first index of the least difference; of an empty array it is a ValueError.
\* The last index of the least difference.
ArgMinLast(d) == CHOOSE i \in 1..Len(d) : /\ \A k \in 1..Len(d) : d[i] <= d[k]
                                          /\ \A k \in (i + 1)..Len(d) : d[k] > d[i]
ArgMin(d) == CHOOSE i \in 1..Len(d) : /\ \A k \in 1..Len(d) : d[i] <= d[k]
                                      /\ \A k \in 1..(i - 1) : d[k] > d[i]
FindNearestValue(array, value) ==
  array[ArgMin([i \in 1..Len(array) |-> Abs(array[i] - value)])]

\* __get_nearest_map, lines 342-358.
GetNearestMap(real_map, options_list) ==
  IF options_list = <<>> /\ NonNaNIndices(real_map) # <<>>
  THEN [f |-> "get_nearest_map", exc |-> "ValueError", new_map |-> <<>>, diff_map |-> <<>>]
  ELSE LET new_map == [y \in 1..Len(real_map) |-> [x \in 1..Len(real_map[1]) |->
                         IF IsNaN(real_map[y][x]) THEN real_map[y][x]
                         ELSE F(FindNearestValue(options_list, real_map[y][x].v))]]
       IN  [f |-> "get_nearest_map", exc |-> "none", new_map |-> new_map,
            diff_map |-> Elementwise(FSub, real_map, new_map)]

MapVals == {NaN} \cup {F(v) : v \in 0..MaxVal}
SmallMaps ==
  {<< <<a, b>> >> : a \in MapVals, b \in MapVals}
  \cup {<< <<a>>, <<b>> >> : a \in MapVals, b \in MapVals}
OptionLists == UNION {[1..n -> 0..MaxVal] : n \in 0..MaxOpts}

InitNearest ==
  /\ pc = "op"
  /\ InstanceIdle
  /\ InversionIdle
  /\ op_in \in {[f |-> "get_nearest_map", real_map |-> m, options_list |-> o] :
                  m \in SmallMaps, o \in OptionLists}
  /\ op_out = NoOp
  /\ CallIdle

CallGetNearestMap ==
  /\ pc = "op"
  /\ op_in.f = "get_nearest_map"
  /\ op_out' = GetNearestMap(op_in.real_map, op_in.options_list)
  /\ pc' = "returned"
  /\ UNCHANGED <<exc, stage, printed, args, selfVars, invVars, op_in, callVars>>

SpecNearest == InitNearest /\ [][CallGetNearestMap]_vars

\* ---------------------------------------------------------- the mosaic merge
\* A merge that copies the NaN pixels too.
AddResultsCopyAll(global_map, local_map) ==
  [y \in 1..Len(global_map) |-> [x \in 1..Len(global_map[1]) |-> local_map[y][x]]]

\* __add_results_to_global_map, lines 457-462.
AddResultsToGlobalMap(global_map, local_map) ==
  [y \in 1..Len(global_map) |-> [x \in 1..Len(global_map[1]) |->
     IF ~IsNaN(local_map[y][x]) THEN local_map[y][x] ELSE global_map[y][x]]]

\* op_out.maps: the global map before the first merge and after each merge.
InitMerge ==
  /\ pc = "op"
  /\ InstanceIdle
  /\ InversionIdle
  /\ op_in \in {[f |-> "add_results_to_global_map", global_map |-> q[1], local_map |-> q[2]] :
                  q \in {r \in SmallMaps \X SmallMaps : Shape(r[1]) = Shape(r[2])}}
  /\ op_out = [f |-> "add_results_to_global_map", maps |-> <<op_in.global_map>>]
  /\ CallIdle

\* One more merge of the same local map into the global map.
CallAddResults ==
  /\ pc = "op"
  /\ op_in.f = "add_results_to_global_map"
  /\ Len(op_out.maps) < 3
  /\ op_out' = [op_out EXCEPT !.maps =
                  Append(@, AddResultsToGlobalMap(@[Len(@)], op_in.local_map))]
  /\ UNCHANGED <<pc, exc, stage, printed, args, selfVars, invVars, op_in, callVars>>

SpecMerge == InitMerge /\ [][CallAddResults]_vars

\* ------------------------------------------------------- strings and paths
\* A str is a sequence of characters.  The characters of the model in the order
\* of their code points, which is the order str comparison and list.sort use.
CharOrder == <<"-", ".", "/", "0", "1", "2", "3", "4", "5", "6", "7", "8", "9",
               "_", "a", "d", "n", "p", "t", "x">>
Ord(c) == CHOOSE i \in 1..Len(CharOrder) : CharOrder[i] = c
Digits == {"0", "1", "2", "3", "4", "5", "6", "7", "8", "9"}
DigitVal(c) == Ord(c) - Ord("0")

\* s < t for two str.
RECURSIVE StrLess(_, _)
StrLess(s, t) ==
  IF t = <<>> THEN FALSE
  ELSE IF s = <<>> THEN TRUE
  ELSE IF Head(s) # Head(t) THEN Ord(Head(s)) < Ord(Head(t))
  ELSE StrLess(Tail(s), Tail(t))

\* s.split(sep): the pieces of s between the occurrences of the character sep.
RECURSIVE Split(_, _)
Split(s, sep) ==
  IF \A i \in 1..Len(s) : s[i] # sep THEN <<s>>
  ELSE LET k == CHOOSE i \in 1..Len(s) : s[i] = sep /\ \A m \in 1..(i - 1) : s[m] # sep
       IN  <<SubSeq(s, 1, k - 1)>> \o Split(SubSeq(s, k + 1, Len(s)), sep)
Last(q) == q[Len(q)]

\* s.replace(old, new) for single characters.
Replace(s, old, new) == [i \in 1..Len(s) |-> IF s[i] = old THEN new ELSE s[i]]

\* The number a string of digits writes.
RECURSIVE DigitsValue(_)
DigitsValue(s) ==
  IF s = <<>> THEN 0 ELSE 10 * DigitsValue(SubSeq(s, 1, Len(s) - 1)) + DigitVal(Last(s))
AllDigits(s) == \A i \in 1..Len(s) : s[i] \in Digits

\* int(s) of an unsigned decimal.
ParseInt(s) ==
  IF s # <<>> /\ AllDigits(s) THEN [ok |-> TRUE, v |-> DigitsValue(s)]
  ELSE [ok |-> FALSE, v |-> 0]

\* float(s) of an unsigned decimal "digits[.digits]" or ".digits", in units of
\* 10^-FracDigits; anything else here is a ValueError.
ParseFloat(s) ==
  LET parts == Split(s, ".")
      ip == parts[1]
      fp == IF Len(parts) = 2 THEN parts[2] ELSE <<>>
  IN  IF /\ Len(parts) <= 2
         /\ AllDigits(ip) /\ AllDigits(fp)
         /\ Len(ip) + Len(fp) > 0
         /\ Len(fp) <= FracDigits
      THEN [ok |-> TRUE,
            v |-> DigitsValue(ip) * Pow10(FracDigits)
                  + DigitsValue(fp) * Pow10(FracDigits - Len(fp))]
      ELSE [ok |-> FALSE, v |-> 0]

\* os.path.join(grid_path, f), for a grid_path that does not end in a separator.
PathJoin(grid_path, f) == grid_path \o <<"/">> \o f

\* ------------------------------------------------------- the grid directory
GridPath == <<"d">>
LineA == <<"1", "-", "0">>
LineB == <<"2", "-", "1">>
LineC == <<"3", "-", "2">>
\* The name <mol>_<line>_<column density>.dat of a RADEX result file.
DatName(line, cd) == <<"a", "_">> \o line \o <<"_">> \o cd \o <<".", "d", "a", "t">>
FileA10 == DatName(LineA, <<"1", "p", "0">>)
FileA21 == DatName(LineB, <<"1", "p", "0">>)
FileA32 == DatName(LineC, <<"1", "p", "0", "0">>)
FileB10 == DatName(LineA, <<"2", "p", "5">>)
FileB21 == DatName(LineB, <<"2", "p", "5">>)
FileC21 == DatName(LineB, <<"7">>)
FileText == <<"n", ".", "t", "x", "t">>
FileSubdir == DatName(LineA, <<"9", "p", "9">>)
FileNoNumber == <<"x", ".", "d", "a", "t">>
GridFiles == {FileA10, FileA21, FileA32, FileB10, FileB21}
DirEntries == GridFiles \cup {FileC21, FileText, FileSubdir, FileNoNumber}
\* os.path.isfile of an entry.
IsFile(f) == f # FileSubdir

\* The listings os.listdir can give of a directory holding some of the entries
\* of a set: every order of every subset of at most MaxFiles of them.
RECURSIVE Listings(_, _)
Listings(entries, n) ==
  IF n = 0 THEN {<<>>}
  ELSE LET shorter == Listings(entries, n - 1)
       IN  shorter \cup {Append(q, e) : q \in shorter, e \in entries}
DistinctListings(entries) ==
  {q \in Listings(entries, MaxFiles) : \A i, k \in 1..Len(q) : i # k => q[i] # q[k]}

MsgMissingFiles == "There might be missing files for the analysis"

\* A count check that looks at the first two counts only.
VerifyFirstTwo(ver_list) ==
  IF ver_list = <<>> THEN [exc |-> "IndexError", equal |-> FALSE]
  ELSE [exc |-> "none", equal |-> Len(ver_list) < 2 \/ ver_list[1] = ver_list[2]]

\* __verify_equality_in_list, lines 399-406; ver_list[0] of an empty list raises.
VerifyEqualityInList(ver_list) ==
  IF ver_list = <<>> THEN [exc |-> "IndexError", equal |-> FALSE]
  ELSE [exc |-> "none",
        equal |-> \A i \in 1..Len(ver_list) : ver_list[1] - ver_list[i] = 0]

IndexOf(q, v) == CHOOSE i \in 1..Len(q) : q[i] = v /\ \A k \in 1..(i - 1) : q[k] # v

\* The loop of lines 218-228 over the eligible files, from the file at index k.
\* acc: return_list, file_names (the dict, as a function of its keys), count_list.
RECURSIVE CatalogLoop(_, _, _, _)
CatalogLoop(files, grid_path, k, acc) ==
  IF k > Len(files) THEN acc
  ELSE LET f == files[k]
           text == Split(Last(Split(f, "_")), ".")[1]
           colDens == ParseFloat(Replace(text, "p", "."))
           path == PathJoin(grid_path, f)
       IN  IF ~colDens.ok THEN [acc EXCEPT !.exc = "ValueError"]
           ELSE IF \A i \in 1..Len(acc.return_list) : acc.return_list[i] # colDens.v
           THEN CatalogLoop(files, grid_path, k + 1,
                  [acc EXCEPT !.return_list = Append(@, colDens.v),
                              !.file_names = [c \in DOMAIN @ \cup {colDens.v} |->
                                                IF c = colDens.v THEN <<path>> ELSE @[c]],
                              !.count_list = Append(@, 1)])
           ELSE CatalogLoop(files, grid_path, k + 1,
                  [acc EXCEPT !.count_list[IndexOf(acc.return_list, colDens.v)] = @ + 1,
                              !.file_names[colDens.v] = Append(@, path)])

\* get_colDens_list_from_files, lines 210-234, on the listing os.listdir gave.
GetColDensListFromFiles(listing, grid_path) ==
  LET files == SelectSeq(listing, LAMBDA f : IsFile(f) /\ Last(Split(f, ".")) = <<"d", "a", "t">>)
      acc == CatalogLoop(files, grid_path, 1,
               [exc |-> "none", return_list |-> <<>>, file_names |-> <<>>,
                count_list |-> <<>>])
      ver == VerifyEqualityInList(acc.count_list)
  IN  [f |-> "get_colDens_list_from_files",
       exc |-> IF acc.exc # "none" THEN acc.exc ELSE ver.exc,
       return_list |-> acc.return_list,
       file_names |-> acc.file_names,
       count_list |-> acc.count_list,
       printed |-> IF acc.exc = "none" /\ ver.exc = "none" /\ ~ver.equal
                   THEN {MsgMissingFiles} ELSE {}]

InitCatalog ==
  /\ pc = "op"
  /\ InstanceIdle
  /\ InversionIdle
  /\ op_in \in {[f |-> "get_colDens_list_from_files", listing |-> q, grid_path |-> GridPath] :
                  q \in DistinctListings(DirEntries)}
  /\ op_out = NoOp
  /\ CallIdle

CallGetColDensList ==
  /\ pc = "op"
  /\ op_in.f = "get_colDens_list_from_files"
  /\ op_out' = GetColDensListFromFiles(op_in.listing, op_in.grid_path)
  /\ pc' = "returned"
  /\ UNCHANGED <<exc, stage, printed, args, selfVars, invVars, op_in, callVars>>

SpecCatalog == InitCatalog /\ [][CallGetColDensList]_vars

\* ---------------------------------------------------- the RADEX result files
Tkins == <<10, 20>>
Densities == <<0, 1, 2>>
\* The rows (Tkin, nH2, Tmb) of a result file: each temperature in turn, and
\* under it each density; tmb[t][n] is the brightness there.
RowsOf(tmb) ==
  [k \in 1..(Len(Tkins) * Len(Densities)) |->
     LET t == ((k - 1) \div Len(Densities)) + 1
         n == ((k - 1) % Len(Densities)) + 1
     IN  [Tkin |-> Tkins[t], nH2 |-> Densities[n], Tmb |-> F(tmb[t][n])]]
\* What the files of the directory hold.
FileRows(f) ==
  CASE f = FileA10 -> RowsOf(<< <<-1, -2, 1>>, <<-1, 2, 1>> >>)
    [] f = FileB10 -> RowsOf(<< <<1, 2, -1>>, <<2, 1, -2>> >>)
    [] f = FileA32 -> RowsOf(<< <<2, 2, 2>>, <<2, 2, 2>> >>)
    [] OTHER -> RowsOf(<< <<1, 1, 1>>, <<1, 1, 1>> >>)

\* __read_file_into_dataframe, lines 417-420 (pd.read_csv of the path).
ReadFileIntoDataFrame(path) == FileRows(Last(Split(path, "/")))

RECURSIVE Flatten(_)
Flatten(qq) == IF qq = <<>> THEN <<>> ELSE Head(qq) \o Flatten(Tail(qq))
\* Every value of q, repeats kept.
KeepAll(q) == q

\* The values of q in the order they first occur.
DistinctInOrder(q) ==
  LET keep == {k \in 1..Len(q) : \A n \in 1..(k - 1) : q[n] # q[k]}
  IN  [m \in 1..Cardinality(keep) |->
         q[CHOOSE k \in keep : Cardinality({n \in keep : n < k}) = m - 1]]

MsgFileLengths == "The RADEX result files do not have the same length"

\* get_Tkin_list_from_directories, lines 238-262.  keys: the dict's keys in
\* their (insertion) order.
GetTkinListFromDirectories(keys, dict) ==
  LET directories_list == Flatten([k \in 1..Len(keys) |-> dict[keys[k]]])
      length_files == [k \in 1..Len(directories_list) |->
                         Len(ReadFileIntoDataFrame(directories_list[k]))]
      first == ReadFileIntoDataFrame(directories_list[1])
      ver == VerifyEqualityInList(length_files)
  IN  [exc |-> ver.exc,
       Tkin_list |-> IF directories_list = <<>> THEN <<>>
                     ELSE DistinctInOrder([k \in 1..Len(first) |-> first[k].Tkin]),
       printed |-> IF ver.exc = "none" /\ ~ver.equal THEN {MsgFileLengths} ELSE {}]

\* list.sort() of a list of str.
RECURSIVE SortStrings(_)
SortStrings(q) ==
  IF q = <<>> THEN <<>>
  ELSE LET m == CHOOSE k \in 1..Len(q) :
                  /\ \A n \in 1..Len(q) : ~StrLess(q[n], q[k])
                  /\ \A n \in 1..(k - 1) : q[n] # q[k]
       IN  <<q[m]>> \o SortStrings(SubSeq(q, 1, m - 1) \o SubSeq(q, m + 1, Len(q)))
Reverse(q) == [k \in 1..Len(q) |-> q[Len(q) + 1 - k]]

\* __get_sorted_paths, lines 370-377.
GetSortedPaths(line_1, line_2, paths) ==
  LET val_1 == ParseInt(Split(line_1, "-")[1])
      val_2 == ParseInt(Split(line_2, "-")[1])
  IN  IF ~val_1.ok \/ ~val_2.ok THEN [exc |-> "ValueError", paths |-> paths]
      ELSE [exc |-> "none",
            paths |-> IF val_1.v > val_2.v THEN Reverse(SortStrings(paths))
                      ELSE SortStrings(paths)]

\* __create_RADEX_ratio_dataframe, lines 306-312.
CreateRadexRatioDataFrame(df_1, df_2) ==
  [k \in 1..Len(df_1) |->
     [T_ratio |-> IF k <= Len(df_2) THEN FDivBrightness(df_1[k].Tmb, df_2[k].Tmb) ELSE NaN,
      nH2 |-> df_1[k].nH2,
      Tkin |-> df_1[k].Tkin]]

RECURSIVE SumSeq(_)
SumSeq(q) == IF q = <<>> THEN 0 ELSE Head(q) + SumSeq(Tail(q))
RECURSIVE Power(_, _)
Power(x, m) == IF m = 0 THEN 1 ELSE x * Power(x, m - 1)
Minor(m, c) ==
  [r \in 1..(Len(m) - 1) |-> [k \in 1..(Len(m) - 1) |-> m[r + 1][IF k < c THEN k ELSE k + 1]]]
RECURSIVE Det(_)
Det(m) ==
  IF Len(m) = 1 THEN m[1][1]
  ELSE SumSeq([c \in 1..Len(m) |->
                 (IF c % 2 = 1 THEN 1 ELSE -1) * m[1][c] * Det(Minor(m, c))])

\* fitfunc.fit_polynomial, called at line 425: the coefficients, lowest order
\* first, of the least squares fit, as the solution of the normal equations
\* (Cramer's rule), to the unit the ratios are held in.
FitPolynomial(xs, ys, order) ==
  LET n == order + 1
      S(m) == SumSeq([k \in 1..Len(xs) |-> Power(xs[k], m)])
      T(m) == SumSeq([k \in 1..Len(xs) |-> Power(xs[k], m) * ys[k].v])
      A == [r \in 1..n |-> [c \in 1..n |-> S(r + c - 2)]]
      Ac(col) == [r \in 1..n |-> [c \in 1..n |-> IF c = col THEN T(r - 1) ELSE A[r][c]]]
  IN  [col \in 1..n |-> Det(Ac(col)) \div Det(A)]

FEq(a, b) == ~a.nan /\ ~b.nan /\ a.v = b.v

\* ---------------------------------- get_density_ratio_from_colDens, lines 86-155
\* The arguments drawn.
ColDensUnit == Pow10(FracDigits - 2)
ColDensMaps == {<< <<F(100 * ColDensUnit), F(250 * ColDensUnit)>> >>,
                << <<F(175 * ColDensUnit), NaN>> >>,
                << <<F(200 * ColDensUnit), F(100 * ColDensUnit)>> >>}
TdustMaps == {<< <<F(10), F(20)>> >>, << <<F(15), F(18)>> >>}
LinePairs == {<<LineA, LineB>>, <<LineB, LineA>>}
\* The directory listings: the short ones in every order, and the whole grid.
FullListing == <<FileA10, FileB10, FileA21, FileB21, FileA32>>
GridListings == DistinctListings(GridFiles) \cup {FullListing}

\* Lines 86-109: the mosaics, the catalog, the temperatures, the nearest maps;
\* entry: the public function the caller called, the directory listing drawn
\* from listings and the column-density map from maps.
ColDensCall(entry, listings, maps) ==
  /\ pc = "ready"
  /\ UNCHANGED <<args, selfVars, invVars, opVars, returned>>
  /\ \E listing \in listings, lines \in LinePairs,
        im_colDens \in maps, im_Tdust \in TdustMaps :
       \E cat \in {GetColDensListFromFiles(listing, GridPath)} :
       \E tk \in {GetTkinListFromDirectories(cat.return_list, cat.file_names)} :
       \E cn \in {GetNearestMap(im_colDens, cat.return_list)} :
       \E tn \in {GetNearestMap(Elementwise(FAdd, im_Tdust, <<<<F(0)>>>>), tk.Tkin_list)} :
       LET raised == IF cat.exc # "none" THEN cat.exc
                     ELSE IF tk.exc # "none" THEN tk.exc
                     ELSE IF cn.exc # "none" THEN cn.exc
                     ELSE tn.exc
       IN  /\ call' = [f |-> "from_colDens", entry |-> entry,
                       listing |-> listing, line_1 |-> lines[1],
                       line_2 |-> lines[2], im_colDens |-> im_colDens,
                       im_Tdust |-> im_Tdust, poly_order |-> 2]
           /\ printed' = printed \cup cat.printed
                         \cup (IF cat.exc = "none" THEN tk.printed ELSE {})
           /\ IF raised # "none"
              THEN /\ pc' = "raised"
                   /\ exc' = raised
                   /\ stage' = "call"
                   /\ UNCHANGED <<gridVars, mosaicVars>>
              ELSE /\ pc' = "bucket"
                   /\ UNCHANGED <<exc, stage>>
                   /\ log_dens_map' = Full(Shape(astro_image), NaN)
                   /\ log_dens_map_low' = Full(Shape(astro_image), NaN)
                   /\ log_dens_map_up' = Full(Shape(astro_image), NaN)
                   /\ colDens_list' = cat.return_list
                   /\ file_names_dict' = cat.file_names
                   /\ Tkin_list' = tk.Tkin_list
                   /\ colDens_nearest' = cn.new_map
                   /\ Tkin_nearest' = tn.new_map
                   /\ loop_i' = 1
                   /\ loop_j' = 0
                   /\ file_paths' = <<>>

\* get_density_ratio_from_colDens called over any listing of the grid.
CallColDens == ColDensCall("get_density_ratio_from_colDens", GridListings, ColDensMaps)

\* Lines 112-127: the next column density, its mask, its two files.
BucketStart ==
  /\ pc = "bucket"
  /\ loop_i <= Len(colDens_list)
  /\ UNCHANGED <<printed, args, selfVars, invVars, opVars, call, mosaicVars, returned,
                 colDens_list, Tkin_list, colDens_nearest, Tkin_nearest, loop_i>>
  /\ \E colDens \in {colDens_list[loop_i]} :
     \E sorted \in {GetSortedPaths(call.line_1, call.line_2, file_names_dict[colDens])} :
         /\ file_names_dict' = [file_names_dict EXCEPT ![colDens] = sorted.paths]
         /\ file_paths' = sorted.paths
         /\ IF sorted.exc # "none"
            THEN pc' = "raised" /\ exc' = sorted.exc /\ stage' = "call" /\ loop_j' = loop_j
            ELSE IF Len(sorted.paths) < 2
            THEN pc' = "raised" /\ exc' = "IndexError" /\ stage' = "call" /\ loop_j' = loop_j
            ELSE pc' = "cell" /\ loop_j' = 1 /\ UNCHANGED <<exc, stage>>

\* Lines 114-115 and 131-132: mask_1 at the pixel (y, x) for the cell of colDens
\* and Tkin.  colDens_nearest == colDens is False at a NaN, Tkin_nearest != Tkin
\* True.
InCellMask(colDens, Tkin, y, x) ==
  /\ FEq(colDens_nearest[y][x], F(colDens))
  /\ FEq(Tkin_nearest[y][x], F(Tkin))

\* Lines 133-134: the copy of the ratio map, NaN outside the cell's mask.
CellRatioCopy(ratio_map, colDens, Tkin) ==
  [y \in 1..Len(ratio_map) |-> [x \in 1..Len(ratio_map[1]) |->
     IF InCellMask(colDens, Tkin, y, x) THEN ratio_map[y][x] ELSE NaN]]

\* Lines 129-140, and lines 173-188 and 316-323 of the calls they make: the next
\* temperature, the masked copy of the ratio map, the cell's fitted curve.
CellStart ==
  /\ pc = "cell"
  /\ loop_j <= Len(Tkin_list)
  /\ UNCHANGED <<printed, args, rat_unc, header, opVars, call, gridVars, mosaicVars, returned>>
  /\ \E colDens \in {colDens_list[loop_i]}, Tkin \in {Tkin_list[loop_j]} :
     \E copy \in {ArrayCopy(astro_image)} :
     \E masked \in {CellRatioCopy(copy.data, colDens, Tkin)} :
     \E df_1 \in {ReadFileIntoDataFrame(file_paths[1])},
        df_2 \in {ReadFileIntoDataFrame(file_paths[2])} :
     \E df_3 \in {CreateRadexRatioDataFrame(df_1, df_2)} :
     \E df_4 \in {SelectSeq(df_3, LAMBDA row : row.Tkin = Tkin)} :
       IF df_4 = <<>>
       THEN /\ pc' = "raised"
            /\ exc' = "KeyError"
            /\ stage' = "call"
            /\ UNCHANGED <<astro_image, invVars>>
       ELSE \E popt \in {FitPolynomial([k \in 1..Len(df_4) |-> df_4[k].nH2],
                                       [k \in 1..Len(df_4) |-> df_4[k].T_ratio],
                                       call.poly_order)} :
            \E c \in {FittedCurve([popt |-> popt, first |-> df_4[1].nH2,
                                   last |-> df_4[Len(df_4)].nH2, len |-> Len(df_4)])} :
            \E cut \in {GetRatioMapCopyRangeCut(c.min_rat, c.max_rat, masked)} :
              /\ pc' = "calc"
              /\ UNCHANGED <<exc, stage>>
              /\ astro_image' = IF copy.shared THEN cut ELSE astro_image
              /\ fit' = c
              /\ ratio_copy' = cut
              /\ vals' = Full(Shape(cut), NaN)
              /\ vals_err_low' = Full(Shape(cut), NaN)
              /\ vals_err_up' = Full(Shape(cut), NaN)
              /\ todo' = NonNaNIndices(cut)

\* Lines 143-145: the cell's three maps into the mosaics; the next temperature.
MergeCell ==
  /\ pc = "merge"
  /\ log_dens_map' = AddResultsToGlobalMap(log_dens_map, vals)
  /\ log_dens_map_low' = AddResultsToGlobalMap(log_dens_map_low, vals_err_low)
  /\ log_dens_map_up' = AddResultsToGlobalMap(log_dens_map_up, vals_err_up)
  /\ loop_j' = loop_j + 1
  /\ pc' = "cell"
  /\ UNCHANGED <<exc, stage, printed, args, selfVars, invVars, opVars, call, returned,
                 colDens_list, file_names_dict, Tkin_list, colDens_nearest, Tkin_nearest,
                 loop_i, file_paths>>

\* The end of the loop of line 129: the next column density.
NextBucket ==
  /\ pc = "cell"
  /\ loop_j > Len(Tkin_list)
  /\ loop_i' = loop_i + 1
  /\ pc' = "bucket"
  /\ UNCHANGED <<exc, stage, printed, args, selfVars, invVars, opVars, call, mosaicVars,
                 returned, colDens_list, file_names_dict, Tkin_list, colDens_nearest, Tkin_nearest,
                 loop_j, file_paths>>

\* The end of the loop of line 112 and the return of line 155.
ColDensReturn ==
  /\ pc = "bucket"
  /\ loop_i > Len(colDens_list)
  /\ pc' = "done"
  /\ ReturnImages(log_dens_map, log_dens_map_low, log_dens_map_up)
  /\ UNCHANGED <<exc, stage, printed, args, astro_image, rat_unc, invVars, opVars, call,
                 gridVars, mosaicVars>>

\* The instances the retrieval over a grid directory is run on.
GridCtorArgs ==
  {[data1 |-> << <<F(-1), F(1)>> >>, data2 |-> << <<F(1), F(1)>> >>,
    rel_uncs |-> [given |-> FALSE, items |-> <<>>], header |-> [NAXIS |-> "2"]],
   [data1 |-> << <<F(1), F(2)>> >>, data2 |-> << <<F(2), F(1)>> >>,
    rel_uncs |-> [given |-> TRUE, items |-> <<Flt(F(0)), Flt(F(1))>>],
    header |-> [NAXIS |-> "2", BUNIT |-> "K"]]}

InitColDens ==
  /\ pc = "ready"
  /\ exc = "none"
  /\ stage = "none"
  /\ printed = {}
  /\ args \in GridCtorArgs
  /\ astro_image = CtorResult(args.data1, args.data2, args.rel_uncs).astro_image
  /\ rat_unc = CtorResult(args.data1, args.data2, args.rel_uncs).rat_unc
  /\ header = args.header
  /\ InversionIdle
  /\ OpIdle
  /\ CallIdle

NextColDens ==
  \/ CallColDens
  \/ BucketStart
  \/ CellStart
  \/ CalcPixel
  \/ CalcReturn
  \/ MergeCell
  \/ NextBucket
  \/ ColDensReturn

SpecColDens == InitColDens /\ [][NextColDens]_vars

\* ------------------------------------------ retrieval calls one after the other
\* The listings the calls of a sequence read: the whole grid, two files for each
\* of two column densities, a column density with one file, an empty directory.
CallListings == {FullListing, <<FileA10, FileA21, FileB10, FileB21>>,
                 <<FileA10, FileB10, FileA21>>, <<>>}
Abundances == {2}

\* im_colDens.get_mol_colDens(mol_abundance), line 161: the column density of
\* the molecule, the map times the abundance.
GetMolColDens(im_colDens, mol_abundance) ==
  [y \in 1..Len(im_colDens) |-> [x \in 1..Len(im_colDens[1]) |->
     IF IsNaN(im_colDens[y][x]) THEN NaN ELSE F(im_colDens[y][x].v * mol_abundance)]]

\* get_density_ratio_from_colDens, called by the caller.
CallFromColDens == ColDensCall("get_density_ratio_from_colDens", CallListings, ColDensMaps)

\* get_density_ratio_from_colDens_and_abundance, lines 159-165.
CallFromColDensAndAbundance ==
  ColDensCall("get_density_ratio_from_colDens_and_abundance", CallListings,
              {GetMolColDens(m, a) : m \in ColDensMaps, a \in Abundances})

\* The caller, holding the images of the call that returned or having caught
\* what the call raised, turns to the instance for its next call.
NextCall ==
  /\ pc \in {"done", "raised"}
  /\ stage # "init"
  /\ pc' = "ready"
  /\ exc' = "none"
  /\ stage' = "none"
  /\ fit' = NoFit
  /\ ratio_copy' = <<>>
  /\ vals' = <<>>
  /\ vals_err_low' = <<>>
  /\ vals_err_up' = <<>>
  /\ todo' = <<>>
  /\ call' = [f |-> "none"]
  /\ colDens_list' = <<>>
  /\ file_names_dict' = <<>>
  /\ Tkin_list' = <<>>
  /\ colDens_nearest' = <<>>
  /\ Tkin_nearest' = <<>>
  /\ loop_i' = 0
  /\ loop_j' = 0
  /\ file_paths' = <<>>
  /\ log_dens_map' = <<>>
  /\ log_dens_map_low' = <<>>
  /\ log_dens_map_up' = <<>>
  /\ UNCHANGED <<printed, args, selfVars, opVars, returned>>

\* The instances of the sequences: each with either header.
CallCtorArgs == {[a EXCEPT !.header = h] : a \in GridCtorArgs, h \in Headers}

InitCalls ==
  /\ pc = "ready"
  /\ exc = "none"
  /\ stage = "none"
  /\ printed = {}
  /\ args \in CallCtorArgs
  /\ astro_image = CtorResult(args.data1, args.data2, args.rel_uncs).astro_image
  /\ rat_unc = CtorResult(args.data1, args.data2, args.rel_uncs).rat_unc
  /\ header = args.header
  /\ InversionIdle
  /\ OpIdle
  /\ CallIdle

NextCalls ==
  \/ CallSingle
  \/ CallFromColDens
  \/ CallFromColDensAndAbundance
  \/ BucketStart
  \/ CellStart
  \/ CalcPixel
  \/ CalcReturn
  \/ MergeCell
  \/ NextBucket
  \/ ColDensReturn
  \/ NextCall

SpecCalls == InitCalls /\ [][NextCalls]_vars

\* ------------------------------------------------------------------ claims
SeqRange(s) == {s[i] : i \in 1..Len(s)}
\* The pixels the loop of __calculate_density has dealt with: those it visited
\* and those (NaN in the working copy) it never visits.
Visited == IF pc \in {"calc", "done"} THEN Pixels(ratio_copy) \ SeqRange(todo) ELSE {}
StrictlyInside(f) == Gt(f, F(fit.min_rat)) /\ Lt(f, F(fit.max_rat))
BracketLo == IF fit.n_beg[1] <= fit.n_end[1] THEN fit.n_beg[1] ELSE fit.n_end[1]
BracketHi == IF fit.n_beg[1] <= fit.n_end[1] THEN fit.n_end[1] ELSE fit.n_beg[1]

\* C1: a root-find that finds no sign change at the bracket's ends leaves its
\* pixel NaN and the loop goes on: no ValueError of a root-find reaches the caller
\* of the density retrieval.
C1_NoSignChangeIsPixelLocal ==
  ~(pc = "raised" /\ exc = "ValueError" /\ stage \in {"central", "up", "low"})

\* C2: constructing from two maps whose shapes do not divide elementwise never
\* raises, whatever rel_uncs is: the failure is printed and the instance has
\* neither a ratio grid nor an uncertainty grid.
C2_ConstructionFailureIsCaught ==
  (pc # "new" /\ ~CanBroadcast(Shape(args.data1), Shape(args.data2)))
    => /\ stage # "init"
       /\ MsgNoRatio \in printed
       /\ astro_image = Unset
       /\ rat_unc = None

\* C3: after construction the uncertainty grid is absent or has exactly the shape
\* of the ratio grid.
C3_UncertaintyShapeMatches ==
  (pc # "new" /\ stage # "init")
    => \/ rat_unc = None
       \/ (astro_image # Unset /\ Shape(rat_unc) = Shape(astro_image))

\* C4: with an uncertainty grid, an inverted pixel's high side holds a value
\* exactly when ratio + unc is strictly inside (min_rat, max_rat), its low side
\* exactly when ratio - unc is; otherwise that side stays NaN and no root-find is
\* made for it (so none can raise there).
C4_UncertaintySidesExactlyInside ==
  /\ rat_unc # None =>
       \A p \in Visited :
         ~IsNaN(At(ratio_copy, p)) =>
           /\ ~IsNaN(At(vals_err_up, p))
                <=> StrictlyInside(FAdd(At(ratio_copy, p), At(rat_unc, p)))
           /\ ~IsNaN(At(vals_err_low, p))
                <=> StrictlyInside(FSub(At(ratio_copy, p), At(rat_unc, p)))
  /\ (pc = "raised" /\ stage = "up")
       => StrictlyInside(FAdd(At(ratio_copy, Head(todo)), At(rat_unc, Head(todo))))
  /\ (pc = "raised" /\ stage = "low")
       => StrictlyInside(FSub(At(ratio_copy, Head(todo)), At(rat_unc, Head(todo))))

\* C5: every pixel of the density map is NaN if the ratio is NaN or outside
\* [min_rat, max_rat]; otherwise it is a density n inside the bracket
\* [n_begin, n_end] with polynomial(n) = ratio, to the resolution of the density
\* axis (the curve takes the ratio at n or between n and n + 1).
C5_CentralInversion ==
  \A p \in Visited :
    LET r == At(astro_image, p)
        n == At(vals, p)
    IN  IF IsNaN(r) \/ r.v < fit.min_rat \/ r.v > fit.max_rat
        THEN IsNaN(n)
        ELSE /\ ~IsNaN(n)
             /\ BracketLo <= n.v /\ n.v <= BracketHi
             /\ \/ Poly(fit.popt, n.v) = r.v
                \/ /\ n.v < BracketHi
                   /\ (Poly(fit.popt, n.v) - r.v) * (Poly(fit.popt, n.v + 1) - r.v) < 0

\* The scenario: ratio = 0.5 * n + 1 on [0, 8] and the ratio map
\* [[2.0, NaN], [3.0, 4.0]] give the densities [[2, NaN], [4, 6]].
C5_Witness ==
  /\ pc = "done"
  /\ astro_image = << <<F(2 * Scale), NaN>>, <<F(3 * Scale), F(4 * Scale)>> >>
  /\ fit.popt = ScenarioTable.popt /\ fit.n_beg = <<0>> /\ fit.n_end = <<8>>
  /\ vals = << <<F(2), NaN>>, <<F(4), F(6)>> >>

Increasing == \A n \in BracketLo..(BracketHi - 1) : Poly(fit.popt, n) <= Poly(fit.popt, n + 1)
Decreasing == \A n \in BracketLo..(BracketHi - 1) : Poly(fit.popt, n) >= Poly(fit.popt, n + 1)

\* C6: wherever the central, low-bound and high-bound densities are all there,
\* low <= central <= high on an increasing curve, and the reverse on a decreasing
\* one, for every ratio and uncertainty grid the constructor produces.
C6_BoundsOrdered ==
  \A p \in Visited :
    (~IsNaN(At(vals, p)) /\ ~IsNaN(At(vals_err_low, p)) /\ ~IsNaN(At(vals_err_up, p)))
      => /\ Increasing =>
              /\ At(vals_err_low, p).v <= At(vals, p).v
              /\ At(vals, p).v <= At(vals_err_up, p).v
         /\ Decreasing =>
              /\ At(vals_err_low, p).v >= At(vals, p).v
              /\ At(vals, p).v >= At(vals_err_up, p).v

\* C8: every non-NaN pixel is matched to the first candidate, in list order, at
\* the least absolute difference from it; every NaN pixel stays NaN in the matched
\* map and in the deviation map; the deviation map is observed minus matched.
C8_NearestIsFirstMinimum ==
  (op_out.f = "get_nearest_map" /\ op_out.exc = "none") =>
    \A p \in Pixels(op_in.real_map) :
      LET val == At(op_in.real_map, p)
          got == At(op_out.new_map, p)
          dev == At(op_out.diff_map, p)
          opts == op_in.options_list
      IN  IF IsNaN(val) THEN IsNaN(got) /\ IsNaN(dev)
          ELSE /\ ~IsNaN(got) /\ ~IsNaN(dev)
               /\ dev.v = val.v - got.v
               /\ \E i \in 1..Len(opts) :
                    /\ opts[i] = got.v
                    /\ \A k \in 1..Len(opts) : Abs(opts[i] - val.v) <= Abs(opts[k] - val.v)
                    /\ \A k \in 1..(i - 1) : Abs(opts[k] - val.v) > Abs(opts[i] - val.v)
               /\ (got.v = val.v) => \E i \in 1..Len(opts) : opts[i] = val.v

\* A pixel midway between two candidates, the farther-listed one first, beside
\* a NaN pixel.
C8_Witness ==
  /\ op_out.f = "get_nearest_map" /\ op_out.exc = "none"
  /\ op_in.real_map = << <<F(2), NaN>> >>
  /\ op_in.options_list = <<3, 1>>
  /\ op_out.new_map = << <<F(3), NaN>> >>
  /\ op_out.diff_map = << <<F(-1), NaN>> >>

\* C10: after a merge every pixel where the local map is not NaN holds the local
\* map's value, and every other pixel the value the global map had before; so a
\* second merge of the same local map changes nothing.
C10_MergeOverwritesNonNaNOnly ==
  op_out.f = "add_results_to_global_map" =>
    /\ \A k \in 2..Len(op_out.maps) : \A p \in Pixels(op_in.local_map) :
         IF ~IsNaN(At(op_in.local_map, p))
         THEN At(op_out.maps[k], p) = At(op_in.local_map, p)
         ELSE At(op_out.maps[k], p) = At(op_out.maps[k - 1], p)
    /\ Len(op_out.maps) = 3 => op_out.maps[3] = op_out.maps[2]

\* Merged twice: one pixel overwritten, one kept.
C10_Witness ==
  /\ op_out.f = "add_results_to_global_map"
  /\ op_in.global_map = << <<F(1), F(2)>> >>
  /\ op_in.local_map = << <<NaN, F(3)>> >>
  /\ op_out.maps = << << <<F(1), F(2)>> >>, << <<F(1), F(3)>> >>, << <<F(1), F(3)>> >> >>

\* The eligible files of the listing the catalog was built from.
Eligible == {f \in SeqRange(op_in.listing) :
               IsFile(f) /\ Len(f) >= 4 /\ SubSeq(f, Len(f) - 3, Len(f)) = <<".", "d", "a", "t">>}
\* The column density a file's name writes between its last "_" and ".dat",
\* "p" being the decimal point, in units of 10^-FracDigits.
NameColDens(f) ==
  LET us == CHOOSE i \in 1..Len(f) : f[i] = "_" /\ \A k \in (i + 1)..Len(f) : f[k] # "_"
      text == SubSeq(f, us + 1, Len(f) - 4)
      pt == IF \E i \in 1..Len(text) : text[i] = "p"
            THEN CHOOSE i \in 1..Len(text) : text[i] = "p" ELSE Len(text) + 1
  IN  DigitsValue(SubSeq(text, 1, pt - 1)) * Pow10(FracDigits)
      + DigitsValue(SubSeq(text, pt + 1, Len(text))) * Pow10(FracDigits - (Len(text) - pt))

\* C9: in the catalog returned, every eligible file's path is in exactly one
\* bucket, the one of the column density its name writes; the list holds every
\* distinct column density once and has the mapping's keys; the missing-files
\* warning is printed exactly when the buckets' file counts are not all equal.
C9_CatalogGroupsByColumnDensity ==
  (op_out.f = "get_colDens_list_from_files" /\ op_out.exc = "none") =>
    LET list == op_out.return_list
        dict == op_out.file_names
    IN  /\ \A f \in Eligible :
             \A c \in DOMAIN dict :
               (\E i \in 1..Len(dict[c]) : dict[c][i] = PathJoin(op_in.grid_path, f))
                 <=> c = NameColDens(f)
        /\ \A f \in Eligible :
             Cardinality({i \in 1..Len(dict[NameColDens(f)]) :
                            dict[NameColDens(f)][i] = PathJoin(op_in.grid_path, f)}) = 1
        /\ \A c \in DOMAIN dict : \A i \in 1..Len(dict[c]) :
             \E f \in Eligible : dict[c][i] = PathJoin(op_in.grid_path, f)
        /\ SeqRange(list) = DOMAIN dict
        /\ \A i, k \in 1..Len(list) : i # k => list[i] # list[k]
        /\ SeqRange(list) = {NameColDens(f) : f \in Eligible}
        /\ (MsgMissingFiles \in op_out.printed)
             <=> \E c, e \in DOMAIN dict : Len(dict[c]) # Len(dict[e])

\* The scenario: files named 1p0, 1p0, 2p5, 2p5 give [1.0, 2.5], two files each,
\* and no warning.
C9_Witness ==
  /\ op_out.f = "get_colDens_list_from_files" /\ op_out.exc = "none"
  /\ op_in.listing = <<FileA10, FileA21, FileB10, FileB21>>
  /\ op_out.return_list = <<Pow10(FracDigits), 25 * Pow10(FracDigits - 1)>>
  /\ Len(op_out.file_names[Pow10(FracDigits)]) = 2
  /\ Len(op_out.file_names[25 * Pow10(FracDigits - 1)]) = 2
  /\ op_out.printed = {}

\* C7: unequal file counts across the buckets are not fatal: the catalog is
\* returned with its warning, and get_density_ratio_from_colDens over it never
\* raises, not for a bucket of fewer than two files either.
C7_UnequalCountsNotFatal ==
  (call.f = "from_colDens" /\ MsgMissingFiles \in printed) => pc # "raised"

\* The cells of the loops of lines 112 and 129, by their indices (i, j).
Cells == (1..Len(colDens_list)) \X (1..Len(Tkin_list))
\* The cells whose mask holds the pixel p.
CellsOf(p) ==
  {c \in Cells : InCellMask(colDens_list[c[1]], Tkin_list[c[2]], p[1], p[2])}
InColDensLoop == call.f = "from_colDens" /\ colDens_nearest # <<>>

\* Every pixel is in the mask of at most one cell, and of none where its column
\* density or its temperature is NaN.
MasksDisjoint ==
  InColDensLoop =>
    \A p \in Pixels(colDens_nearest) :
      /\ Cardinality(CellsOf(p)) <= 1
      /\ (IsNaN(At(colDens_nearest, p)) \/ IsNaN(At(Tkin_nearest, p))) => CellsOf(p) = {}

\* A merge writes a pixel of a mosaic only where that mosaic is still NaN.
MergeWritesFresh ==
  (pc = "merge" /\ pc' = "cell") =>
    \A p \in Pixels(log_dens_map) :
      /\ ~IsNaN(At(vals, p)) => IsNaN(At(log_dens_map, p))
      /\ ~IsNaN(At(vals_err_low, p)) => IsNaN(At(log_dens_map_low, p))
      /\ ~IsNaN(At(vals_err_up, p)) => IsNaN(At(log_dens_map_up, p))

\* The returned mosaics hold at each pixel what the pixel's own cell alone gives
\* there, NaN where it has no cell: nothing in it names the order of the cells.
FinalIsPerPixel ==
  (pc = "done" /\ InColDensLoop) =>
    \A p \in Pixels(log_dens_map) :
      \A own \in {CellsOf(p)} :
        IF own = {}
        THEN /\ IsNaN(At(log_dens_map, p))
             /\ IsNaN(At(log_dens_map_low, p))
             /\ IsNaN(At(log_dens_map_up, p))
        ELSE \A c \in own :
             \A paths \in {GetSortedPaths(call.line_1, call.line_2,
                                          file_names_dict[colDens_list[c[1]]]).paths} :
             \A df_3 \in {CreateRadexRatioDataFrame(ReadFileIntoDataFrame(paths[1]),
                                                    ReadFileIntoDataFrame(paths[2]))} :
             \A df_4 \in {SelectSeq(df_3, LAMBDA row : row.Tkin = Tkin_list[c[2]])} :
             \A popt \in {FitPolynomial([k \in 1..Len(df_4) |-> df_4[k].nH2],
                                        [k \in 1..Len(df_4) |-> df_4[k].T_ratio],
                                        call.poly_order)} :
             \A curve \in {FittedCurve([popt |-> popt, first |-> df_4[1].nH2,
                                        last |-> df_4[Len(df_4)].nH2, len |-> Len(df_4)])} :
             \A cut \in {GetRatioMapCopyRangeCut(curve.min_rat, curve.max_rat,
                           CellRatioCopy(astro_image, colDens_list[c[1]], Tkin_list[c[2]]))} :
               IF IsNaN(At(cut, p))
               THEN /\ IsNaN(At(log_dens_map, p))
                    /\ IsNaN(At(log_dens_map_low, p))
                    /\ IsNaN(At(log_dens_map_up, p))
               ELSE \E o \in PixelOutcomes(cut, rat_unc, curve, p) :
                      /\ o.exc = "none"
                      /\ At(log_dens_map, p) = o.val
                      /\ At(log_dens_map_low, p) = o.low
                      /\ At(log_dens_map_up, p) = o.up

\* C11: over the whole loop of get_density_ratio_from_colDens every pixel is in
\* the mask of at most one cell (none for a NaN column density or temperature),
\* so every pixel of the three mosaics is written by at most one cell and the
\* mosaics returned do not depend on the order the cells are taken in.
C11_EachPixelOneCell ==
  /\ [](MasksDisjoint /\ FinalIsPerPixel)
  /\ [][MergeWritesFresh]_vars

\* A call returned with two pixels written by two different cells.
C11_Witness ==
  /\ pc = "done" /\ InColDensLoop
  /\ \E p, q \in Pixels(log_dens_map) :
       /\ ~IsNaN(At(log_dens_map, p)) /\ ~IsNaN(At(log_dens_map, q))
       /\ CellsOf(p) # {} /\ CellsOf(q) # {} /\ CellsOf(p) # CellsOf(q)

\* C12: whatever retrieval calls were made on an instance, one after the other
\* (single-cell, over a column-density map, over a column-density map and an
\* abundance), its ratio grid, its uncertainty grid and its header are what the
\* constructor left: range cuts, masks and BUNIT went into copies.
C12_InstanceUnchangedByCalls ==
  LET built == CtorResult(args.data1, args.data2, args.rel_uncs)
  IN  /\ astro_image = built.astro_image
      /\ rat_unc = built.rat_unc
      /\ header = args.header

\* A call over a column density and an abundance has cut its copy of the ratio
\* map, after an earlier call returned images under another BUNIT than the
\* instance's header holds.
C12_Witness ==
  /\ pc = "merge"
  /\ call.entry = "get_density_ratio_from_colDens_and_abundance"
  /\ ratio_copy # astro_image
  /\ \E p \in Pixels(vals) : ~IsNaN(At(vals, p))
  /\ returned # NoImages
  /\ \A k \in 1..3 : returned.images[k].header # header

====
